---- MODULE Spec2Model ----
(***************************************************************************)
(* Model of the StudyMate_AI study page (src/pages/study.py): the          *)
(* multi-agent pipeline run_pipeline, the quiz parser parse_quiz, and the  *)
(* Streamlit session state mutated by the handlers of show().              *)
(*                                                                         *)
(* Representation choices                                                  *)
(*  - A text (a Python str returned by an agent) is a string; the texts   *)
(*    that occur are catalogued, and Lines(text) gives the lines of one.   *)
(*    A line is a record                                                   *)
(*    [k, n, s]: k is the shape of the line as the parsers see it          *)
(*    ("Q" for `Q<n>: ...`, "A".."D" for `A)...`, "Ans" for                *)
(*    `Correct answer: <s>`, "E" for `E<n>: ...`, "QUIZ"/"EXERCISES" for   *)
(*    the markers, "text" for anything else), n the number it carries and  *)
(*    s its payload.                                                       *)
(*  - quiz_score is kept in tenths of a point (round(x, 1) has exactly one *)
(*    decimal), so 20.0 is 200 and 6.7 is 67.  Sums of 20/T are exact      *)
(*    rationals here; Python adds IEEE doubles.                            *)
(*  - quiz_answers (a dict keyed "q_<n>") is a function over the question  *)
(*    numbers; NoAnswer is dict.get's None / a missing key.                *)
(*  - An agent call either returns a text or raises; a world w maps every  *)
(*    agent to its outcome [ok, val] for one handler execution.            *)
(***************************************************************************)
EXTENDS Integers, Sequences, FiniteSets, TLC

VARIABLES
    env,             \* names of the environment variables that are set
    engine_label,    \* value of the "engine_selector" selectbox
    mas_output, summary, videos, projects, quizzes, exams, roadmap,
    engine_code, study_history,
    quiz_score, quiz_answers, quiz_submitted,
    last_event,      \* the last user event: what was clicked, what was typed,
                     \* the agent calls made while handling it, and the
                     \* message the page showed
    run              \* SpecRun only: one call of run_pipeline, request and result

sessVars == <<mas_output, summary, videos, projects, quizzes, exams, roadmap,
              study_history, quiz_score, quiz_answers, quiz_submitted>>
vars == <<env, engine_label, mas_output, summary, videos, projects, quizzes,
          exams, roadmap, engine_code, study_history, quiz_score,
          quiz_answers, quiz_submitted, last_event, run>>

----------------------------------------------------------------------------
(* Bounds *)
MaxHistory == 2
MaxQNum == 2

----------------------------------------------------------------------------
(* Program constants *)
ENGINE_OPTIONS ==
    [l \in {"Chat GPT 5.1 (OpenAI)", "Deepseek 3.1", "Gemini 3.1", "Grok 4.1"} |->
        CASE l = "Chat GPT 5.1 (OpenAI)" -> [code |-> "openai", env_var |-> "OPENAI_API_KEY"]
          [] l = "Deepseek 3.1" -> [code |-> "deepseek", env_var |-> "DEEPSEEK_API_KEY"]
          [] l = "Gemini 3.1" -> [code |-> "gemini", env_var |-> "GOOGLE_API_KEY"]
          [] l = "Grok 4.1" -> [code |-> "grok", env_var |-> "XAI_API_KEY"]]
DEFAULT_ENGINE == "deepseek"
default_label == "Deepseek 3.1"
max_score == 20
HELP_OPTIONS == <<"Summarize (Default)", "Videos", "Related Projects",
                  "Quizzes/Exercises", "Exams">>
Letters == {"A", "B", "C", "D"}

None == "None"
NoAnswer == "None"
EmptyText == ""
NoRun == [pc |-> "none"]
QNums == 1..MaxQNum

----------------------------------------------------------------------------
(* Texts *)
\* `digits` is the length of the digit string that carries n
Ln(k, n, s) == [k |-> k, n |-> n, s |-> s, digits |-> IF n < 10 THEN 1 ELSE 2]
\* a numbered line whose digit string is `digits` long: too long for n to be
\* written down here
LnLong(k, digits, s) == [k |-> k, n |-> 0, s |-> s, digits |-> digits]

\* sys.int_info.default_max_str_digits: int(str) raises ValueError beyond it
int_max_str_digits == 4300

Block(n, correct) ==
    <<Ln("Q", n, "question"), Ln("A", 0, "a"), Ln("B", 0, "b"),
      Ln("C", 0, "c"), Ln("D", 0, "d"), Ln("Ans", 0, correct)>>

\* two well-formed questions and one exercise
QuizTwo == "[QUIZ] Q1 (A) Q2 (B) [EXERCISES] E1"
\* three well-formed questions that all carry the number 1
QuizRepeated == "[QUIZ] Q1 (A) Q1 (A) Q1 (B)"
\* a question without its D) line: no question is parsed
QuizMalformed == "[QUIZ] Q1 without D)"
\* Q1 lacks D) and has a bad answer letter: the match runs on into Q2's lines
QuizSwallowed == "[QUIZ] Q1 without D), answer E; Q2 (C)"
QuizTexts == {EmptyText, QuizTwo, QuizRepeated, QuizMalformed, QuizSwallowed}
\* one well-formed question whose number has more digits than int() converts
QuizHugeNumber == "[QUIZ] Q<4301 digits> (A)"
\* one exercise whose number has more digits than int() converts
QuizHugeExercise == "[EXERCISES] E<4301 digits>"
\* a long quiz: one question short of LongQuizLen numbered 1 with answer A,
\* then one numbered 2 with answer B
LongQuizLen == 2 * max_score * 10
QuizLong == "[QUIZ] Q1 (A) many times, then Q2 (B)"

\* the lines k times over
Repeat(lines, k) ==
    [i \in 1..(k * Len(lines)) |-> lines[((i - 1) % Len(lines)) + 1]]

Lines(text) ==
    CASE text = EmptyText -> <<>>
      [] text = QuizTwo ->
            <<Ln("QUIZ", 0, "")>> \o Block(1, "A") \o Block(2, "B")
                \o <<Ln("EXERCISES", 0, ""), Ln("E", 1, "exercise")>>
      [] text = QuizRepeated ->
            <<Ln("QUIZ", 0, "")>> \o Block(1, "A") \o Block(1, "A") \o Block(1, "B")
      [] text = QuizMalformed ->
            <<Ln("QUIZ", 0, ""), Ln("Q", 1, "question"), Ln("A", 0, "a"),
              Ln("B", 0, "b"), Ln("C", 0, "c"), Ln("Ans", 0, "A")>>
      [] text = QuizSwallowed ->
            <<Ln("QUIZ", 0, ""), Ln("Q", 1, "question"), Ln("A", 0, "a"),
              Ln("B", 0, "b"), Ln("C", 0, "c"), Ln("Ans", 0, "E")>> \o Block(2, "C")
      [] text = QuizHugeNumber ->
            <<Ln("QUIZ", 0, ""), LnLong("Q", int_max_str_digits + 1, "question"),
              Ln("A", 0, "a"), Ln("B", 0, "b"), Ln("C", 0, "c"), Ln("D", 0, "d"),
              Ln("Ans", 0, "A")>>
      [] text = QuizHugeExercise ->
            <<Ln("EXERCISES", 0, ""),
              LnLong("E", int_max_str_digits + 1, "exercise")>>
      [] text = QuizLong ->
            <<Ln("QUIZ", 0, "")>> \o Repeat(Block(1, "A"), LongQuizLen - 1)
                \o Block(2, "B")
      [] OTHER -> <<Ln("text", 0, text)>>

----------------------------------------------------------------------------
(* parse_quiz *)
Min(S) == CHOOSE x \in S : \A y \in S : x <= y

\* the line has the shape the pattern asks for at this point; the answer
\* line must carry one of the letters [A-D]
LineIs(ln, shape) ==
    IF shape = "Ans" THEN ln.k = "Ans" /\ ln.s \in Letters ELSE ln.k = shape

\* index of the first line of that shape after position i, 0 when there is none
FirstAfter(s, i, shape) ==
    IF \E j \in (i + 1)..Len(s) : LineIs(s[j], shape)
    THEN CHOOSE j \in (i + 1)..Len(s) :
            /\ LineIs(s[j], shape)
            /\ \A k \in (i + 1)..(j - 1) : ~LineIs(s[k], shape)
    ELSE 0

IsNotQuizMarker(ln) == ln.k # "QUIZ"

\* question_pattern tried at the Q line q: the lazy groups stop at the first
\* A), B), C), D) and `Correct answer: [A-D]` lines, in that order.
\* The result is the tuple of their positions, or <<>> when one is missing.
question_match(s, q) ==
    LET M == UNION {UNION {UNION {UNION {
                {<<a, b, c, d, e>> : e \in {FirstAfter(s, d, "Ans")} \ {0}}
                    : d \in {FirstAfter(s, c, "D")} \ {0}}
                    : c \in {FirstAfter(s, b, "C")} \ {0}}
                    : b \in {FirstAfter(s, a, "B")} \ {0}}
                    : a \in {FirstAfter(s, q, "A")} \ {0}}
    IN  IF M = {} THEN <<>> ELSE CHOOSE m \in M : TRUE

\* the Q line of the leftmost match of question_pattern after position i,
\* 0 when there is none
first_match_after(s, i) ==
    IF \E q \in (i + 1)..Len(s) : LineIs(s[q], "Q") /\ question_match(s, q) # <<>>
    THEN CHOOSE q \in (i + 1)..Len(s) :
            /\ LineIs(s[q], "Q") /\ question_match(s, q) # <<>>
            /\ \A p \in (i + 1)..(q - 1) :
                  ~(LineIs(s[p], "Q") /\ question_match(s, p) # <<>>)
    ELSE 0

\* re.findall(question_pattern, s) from position i on, stopped after n
\* matches: the matches, and the position reached (Len(s) when no further
\* match exists).  Each match is the leftmost one after the end of the match
\* before it.  The n matches are taken as the first half, then the second
\* half from where the first stopped (q, m, left and right are bound as
\* elements of one-element sets).
RECURSIVE find_some_questions(_, _, _)
find_some_questions(s, i, n) ==
    IF n = 0 \/ i >= Len(s) THEN [found |-> <<>>, pos |-> i]
    ELSE IF n = 1
    THEN CHOOSE r \in UNION {
            {IF q = 0 THEN [found |-> <<>>, pos |-> Len(s)]
             ELSE [found |->
                     <<[q_num |-> s[q],
                        number |-> s[q].n,
                        question |-> SubSeq(s, q, m[1] - 1),
                        options |-> [A |-> SubSeq(s, m[1], m[2] - 1),
                                     B |-> SubSeq(s, m[2], m[3] - 1),
                                     C |-> SubSeq(s, m[3], m[4] - 1),
                                     D |-> SubSeq(s, m[4], m[5] - 1)],
                        correct |-> s[m[5]].s]>>,
                   pos |-> m[5]]
                : m \in {IF q = 0 THEN <<>> ELSE question_match(s, q)}}
            : q \in {first_match_after(s, i)}} : TRUE
    ELSE CHOOSE r \in UNION {
            {[found |-> left.found \o right.found, pos |-> right.pos]
                : right \in {find_some_questions(s, left.pos, n - (n \div 2))}}
            : left \in {find_some_questions(s, i, n \div 2)}} : TRUE

\* all the matches: there are no more of them than lines
find_questions(s, i) == find_some_questions(s, i, Len(s)).found

\* re.findall(exercise_pattern, s): every E<n>: line opens an exercise that
\* runs to the next one or to the end
RECURSIVE find_exercises(_, _)
find_exercises(s, i) ==
    LET e == FirstAfter(s, i, "E")
    IN  IF e = 0 THEN <<>>
        ELSE LET nxt == FirstAfter(s, e, "E")
                 stop == IF nxt = 0 THEN Len(s) ELSE nxt - 1
             IN  <<[e_num |-> s[e], number |-> s[e].n,
                    text |-> SubSeq(s, e, stop)]>>
                 \o find_exercises(s, e)

parse_quiz_lines(quiz_text) ==
    LET m1 == FirstAfter(quiz_text, 0, "EXERCISES")
        m2 == IF m1 = 0 THEN 0 ELSE FirstAfter(quiz_text, m1, "EXERCISES")
        part0 == IF m1 = 0 THEN quiz_text ELSE SubSeq(quiz_text, 1, m1 - 1)
        part1 == IF m1 = 0 THEN <<>>
                 ELSE IF m2 = 0 THEN SubSeq(quiz_text, m1 + 1, Len(quiz_text))
                 ELSE SubSeq(quiz_text, m1 + 1, m2 - 1)
    IN  CHOOSE quiz_data \in
            {[questions |-> find_questions(quiz_section, 0),
              exercises |-> find_exercises(exercises_section, 0)]
                : quiz_section \in {SelectSeq(part0, IsNotQuizMarker)},
                  exercises_section \in {part1}} : TRUE

\* parse_quiz of the catalogued quiz texts, evaluated once
ParsedQuizTexts == [t \in QuizTexts |-> parse_quiz_lines(Lines(t))]

QuizLongLines == Lines(QuizLong)
ParsedQuizLong == parse_quiz_lines(QuizLongLines)

\* int(q_num), int(e_num): the conversion raises on a digit string that is
\* too long
int_raises(num) == num.digits > int_max_str_digits

parse_quiz(quiz_text) ==
    IF quiz_text \in QuizTexts THEN ParsedQuizTexts[quiz_text]
    ELSE IF quiz_text = QuizLong THEN ParsedQuizLong
    ELSE parse_quiz_lines(Lines(quiz_text))

\* a call of parse_quiz: whether it raised, and what it returned otherwise
parse_quiz_call(quiz_text) ==
    LET quiz_data == parse_quiz(quiz_text)
    IN  IF \/ \E i \in 1..Len(quiz_data.questions) :
                 int_raises(quiz_data.questions[i].q_num)
           \/ \E i \in 1..Len(quiz_data.exercises) :
                 int_raises(quiz_data.exercises[i].e_num)
        THEN [raised |-> TRUE, exc |-> [type |-> "ValueError"]]
        ELSE [raised |-> FALSE, value |-> quiz_data]

----------------------------------------------------------------------------
(* parse_videos and parse_projects *)
(* A videos or projects text is a sequence of lines as well: "sep" is the   *)
(* line of dashes, "entry" a line `[<n>] <s>` (the marker, then the title), *)
(* "url" a line `URL: <s>`, "note" a line `Note: <s>`, "blank" an empty     *)
(* line and "text" any other line <s>.                                      *)

\* the substrings the parsers look for that occur in a piece of text
Substrings(s) ==
    CASE s = "GitHub Projects" -> {"GitHub"}
      [] s = "DockerHub Images" -> {"DockerHub", "Docker"}
      [] s = "Docker Images" -> {"Docker"}
      [] s \in {"https://github.com/a/b", "https://github.com/a"} -> {"github.com"}
      [] s = "https://hub.docker.com/r/x" -> {"hub.docker.com"}
      [] s = "https://www.youtube.com/watch?v=abc&t=3" -> {"youtube.com/watch?v="}
      [] s = "https://youtu.be/xyz?t=1" -> {"youtu.be/"}
      [] OTHER -> {}

\* `needle in text`, text being some lines
contains(lines, needle) ==
    \E i \in 1..Len(lines) : needle \in Substrings(lines[i].s)

\* str.split(sep) of the pieces of text that occur
split(s, sep) ==
    CASE s = "https://github.com/a/b" /\ sep = "github.com/" -> <<"https://", "a/b">>
      [] s = "https://github.com/a" /\ sep = "github.com/" -> <<"https://", "a">>
      [] s = "a/b" /\ sep = "/" -> <<"a", "b">>
      [] s = "https://www.youtube.com/watch?v=abc&t=3" /\ sep = "watch?v=" ->
            <<"https://www.youtube.com/", "abc&t=3">>
      [] s = "abc&t=3" /\ sep = "&" -> <<"abc", "t=3">>
      [] s = "https://youtu.be/xyz?t=1" /\ sep = "youtu.be/" -> <<"https://", "xyz?t=1">>
      [] s = "xyz?t=1" /\ sep = "?" -> <<"xyz", "t=1">>
      [] OTHER -> <<s>>

\* the text is split at the lines of that shape: the pieces between them
RECURSIVE split_lines(_, _)
split_lines(lines, shape) ==
    LET p == FirstAfter(lines, 0, shape)
    IN  IF p = 0 THEN <<lines>>
        ELSE <<SubSeq(lines, 1, p - 1)>>
                 \o split_lines(SubSeq(lines, p + 1, Len(lines)), shape)

\* re.split(r'\[\d+\]', text)[1:]: one piece per marker, from the title that
\* follows the marker to the line before the next marker
entries_of(lines) ==
    LET starts == {p \in 1..Len(lines) : lines[p].k = "entry"}
        stop(p) == IF \E q \in starts : q > p
                   THEN Min({q \in starts : q > p}) - 1
                   ELSE Len(lines)
        nth(j) == CHOOSE p \in starts : Cardinality({q \in starts : q < p}) = j - 1
    IN  [j \in 1..Cardinality(starts) |-> SubSeq(lines, nth(j), stop(nth(j)))]

\* a line that str.strip() removes at either end of an entry
is_blank(ln) == ln.k = "blank" \/ (ln.k \in {"entry", "text"} /\ ln.s = "")
RECURSIVE lstrip_lines(_)
lstrip_lines(lines) ==
    IF lines # <<>> /\ is_blank(Head(lines)) THEN lstrip_lines(Tail(lines))
    ELSE lines
RECURSIVE rstrip_lines(_)
rstrip_lines(lines) ==
    IF lines # <<>> /\ is_blank(lines[Len(lines)])
    THEN rstrip_lines(SubSeq(lines, 1, Len(lines) - 1))
    ELSE lines
\* entry.strip().split('\n'): "" splits into the one line ""
entry_lines(entry) ==
    LET stripped == rstrip_lines(lstrip_lines(entry))
    IN  IF stripped = <<>> THEN <<Ln("blank", 0, "")>>
        ELSE stripped

\* the last line of that shape decides (the loops of lines 109-113), "" when
\* there is none
last_field(lines, shape) ==
    LET P == {p \in 2..Len(lines) : lines[p].k = shape}
    IN  IF P = {} THEN ""
        ELSE lines[CHOOSE p \in P : \A q \in P : q <= p].s

\* seq[i] of Python, i counted from 0: IndexError past the end
item(seq, i) ==
    IF i + 1 <= Len(seq) THEN [raised |-> FALSE, value |-> seq[i + 1]]
    ELSE [raised |-> TRUE, exc |-> [type |-> "IndexError"]]

\* lines 150-165 for one entry: <<>> when it is skipped, the video otherwise
video_of(entry) ==
    LET lines == entry_lines(entry)
        url == lines[2]
        id == IF "youtube.com/watch?v=" \in Substrings(url.s)
              THEN LET rest == item(split(url.s, "watch?v="), 1)
                   IN  IF rest.raised THEN rest
                       ELSE item(split(rest.value, "&"), 0)
              ELSE IF "youtu.be/" \in Substrings(url.s)
              THEN LET rest == item(split(url.s, "youtu.be/"), 1)
                   IN  IF rest.raised THEN rest
                       ELSE item(split(rest.value, "?"), 0)
              ELSE [raised |-> FALSE, value |-> ""]
    IN  IF Len(lines) >= 2
        THEN IF id.raised THEN <<id>>
             ELSE <<[raised |-> FALSE,
                     value |-> [url |-> url, title |-> lines[1].s,
                                video_id |-> id.value]]>>
        ELSE <<>>

\* the results of the loop bodies one after the other
RECURSIVE flatten(_)
flatten(seqs) == IF seqs = <<>> THEN <<>> ELSE Head(seqs) \o flatten(Tail(seqs))

\* the loop stopped by the first exception, or the values it gathered
gather(results) ==
    IF \E i \in 1..Len(results) : results[i].raised
    THEN results[CHOOSE i \in 1..Len(results) :
                    results[i].raised /\ \A j \in 1..(i - 1) : ~results[j].raised]
    ELSE [raised |-> FALSE,
          value |-> [i \in 1..Len(results) |-> results[i].value]]

parse_videos(videos_text) ==
    LET entries == entries_of(videos_text)
    IN  gather(flatten([j \in 1..Len(entries) |-> video_of(entries[j])]))

\* lines 103-137 for one entry of a section: <<>> when it is skipped or
\* dropped, otherwise the project and the list it is appended to
project_of(entry, is_github, is_docker) ==
    LET lines == entry_lines(entry)
        title == lines[1].s
        url == last_field(lines, "url")
        description == last_field(lines, "note")
        url_github == "github.com" \in Substrings(url)
        parts == split(url, "github.com/")
        path_parts == IF url_github /\ Len(parts) > 1
                      THEN split(parts[2], "/") ELSE <<>>
        project_data ==
            [url |-> url,
             title |-> title,
             description |-> description,
             repo_name |-> IF Len(path_parts) >= 2 THEN path_parts[2] ELSE title,
             creator |-> IF Len(path_parts) >= 2 THEN path_parts[1] ELSE "Unknown"]
    IN  IF Len(lines) >= 2
        THEN IF is_github \/ url_github
             THEN <<[list |-> "github", value |-> project_data]>>
             ELSE IF is_docker \/ "hub.docker.com" \in Substrings(url)
             THEN <<[list |-> "docker", value |-> project_data]>>
             ELSE <<>>
        ELSE <<>>

\* lines 96-137 for one section
section_projects(section) ==
    LET is_github == contains(section, "GitHub") \/ contains(section, "github.com")
        is_docker == \/ contains(section, "DockerHub")
                     \/ contains(section, "hub.docker.com")
                     \/ contains(section, "Docker")
        entries == entries_of(section)
    IN  flatten([j \in 1..Len(entries) |->
                    project_of(entries[j], is_github, is_docker)])

parse_projects(projects_text) ==
    LET sections == split_lines(projects_text, "sep")
        appended == flatten([k \in 1..Len(sections) |->
                                section_projects(sections[k])])
        listed(name) ==
            LET sel == SelectSeq(appended, LAMBDA a : a.list = name)
            IN  [i \in 1..Len(sel) |-> sel[i].value]
    IN  [raised |-> FALSE,
         value |-> [github |-> listed("github"), docker |-> listed("docker")]]

----------------------------------------------------------------------------
(* Grading arithmetic *)
\* round(num/den, 0) for num >= 0, den > 0: nearest integer, ties to even
RoundHalfEven(num, den) ==
    LET q == num \div den
        r == num % den
    IN  IF 2 * r < den THEN q
        ELSE IF 2 * r > den THEN q + 1
        ELSE IF q % 2 = 0 THEN q ELSE q + 1

\* count_correct that counts every answered question
count_correct_answered(questions, answers) ==
    Cardinality({i \in 1..Len(questions) :
                    answers[questions[i].number] # NoAnswer})

\* the questions whose recorded answer is the correct letter (the loop of
\* the Submit handler), as the number of times points_per_question is added
count_correct(questions, answers) ==
    Cardinality({i \in 1..Len(questions) :
                    answers[questions[i].number] = questions[i].correct})

\* graded_score with the score cut to one decimal instead of rounded
graded_score_truncated(questions, answers) ==
    IF Len(questions) > 0
    THEN (count_correct(questions, answers) * max_score * 10) \div Len(questions)
    ELSE 0

\* graded_score with every correct answer worth max_score
graded_score_unweighted(questions, answers) ==
    count_correct(questions, answers) * max_score * 10

\* round(score, 1) in tenths, score = count * (max_score / total_questions),
\* and points_per_question = 0 when there is no question
graded_score(questions, answers) ==
    LET total_questions == Len(questions)
    IN  IF total_questions > 0
        THEN RoundHalfEven(count_correct(questions, answers) * max_score * 10,
                           total_questions)
        ELSE 0

\* round(quiz_score / max_score * 3) of the roadmap handler
self_score(score) == RoundHalfEven(score * 3, max_score * 10)

----------------------------------------------------------------------------
(* Agents (imported from the agents package) and their outcomes *)
AGENTS == {"a1_everything", "a2_cleaner", "a3_adapter", "a4_summarizer",
           "a5_collector_videos", "a6_relations_projects",
           "a7_ai_companion_quiz", "a8_examiner", "a9_guide"}

Ok(t) == [ok |-> TRUE, val |-> t]
\* an exception object as the callee built it: its class and nothing else
Exc(type) == [type |-> type]
\* an agent fails with an exception of its own (network, parsing, quota)
Raise == [ok |-> FALSE, val |-> EmptyText, exc |-> Exc("ConnectionError")]

\* what a call of agent a can do: raise, return "", or return a text
Outcomes(a) ==
    {Raise, Ok(EmptyText)} \cup
    CASE a = "a7_ai_companion_quiz" -> {Ok(q) : q \in QuizTexts}
      [] a = "a3_adapter" -> {Ok("document text"), Ok("ERROR: unreadable file")}
      [] a = "a4_summarizer" -> {Ok("notes"), Ok("other notes")}
      [] OTHER -> {Ok(a)}

\* the worlds the session specification draws from: every agent answers
\* (with each quiz text), every agent answers "", and one agent raises (one
\* of each stage of the pipeline, and the roadmap guide)
AllOk(q, sm, doc) ==
    [a \in AGENTS |->
        CASE a = "a7_ai_companion_quiz" -> Ok(q)
          [] a = "a3_adapter" -> Ok(doc)
          [] a = "a4_summarizer" -> Ok(sm)
          [] OTHER -> Ok(a)]
FailAt(f) == [AllOk(QuizTwo, "notes", "document text") EXCEPT ![f] = Raise]
AllEmpty == [a \in AGENTS |-> Ok(EmptyText)]
FailingAgents == {"a2_cleaner", "a3_adapter", "a4_summarizer",
                  "a7_ai_companion_quiz", "a8_examiner", "a9_guide"}
Worlds ==
    {AllOk(QuizTwo, "notes", "document text"),
     AllOk(QuizRepeated, "other notes", "document text"),
     AllOk(QuizMalformed, "notes", "document text"),
     AllOk(QuizSwallowed, "notes", "ERROR: unreadable file"),
     AllEmpty}
        \cup {FailAt(f) : f \in FailingAgents}

----------------------------------------------------------------------------
(* Small helpers for Python built-ins *)
Range(s) == {s[i] : i \in 1..Len(s)}

Whitespace == {" ", "\t", "\n"}
RECURSIVE lstrip(_)
lstrip(s) == IF s # <<>> /\ Head(s) \in Whitespace THEN lstrip(Tail(s)) ELSE s
RECURSIVE rstrip(_)
rstrip(s) ==
    IF s # <<>> /\ s[Len(s)] \in Whitespace THEN rstrip(SubSeq(s, 1, Len(s) - 1)) ELSE s
\* strip that leaves the string as it is
strip_nothing(s) == s

\* str.strip() on a string given as its sequence of characters
strip(s) == rstrip(lstrip(s))

check_api_key(env_var) == env_var \in env

\* agents.get_llm: a handle for the engine, CredentialError without its key
EnvVarOf(code) ==
    ENGINE_OPTIONS[CHOOSE l \in DOMAIN ENGINE_OPTIONS : ENGINE_OPTIONS[l].code = code].env_var
get_llm(code) ==
    IF check_api_key(EnvVarOf(code)) THEN [ok |-> TRUE, val |-> [engine |-> code]]
    ELSE [ok |-> FALSE, val |-> [engine |-> code], exc |-> Exc("CredentialError")]

\* the help_types list built from the five checkboxes
help_list(checked) == SelectSeq(HELP_OPTIONS, LAMBDA h : h \in checked)

----------------------------------------------------------------------------
(* run_pipeline *)
NoOutput == [none |-> TRUE]

\* the local variables of run_pipeline as lines 218-238 initialise them
Locals0 ==
    [llm |-> [engine |-> None], context_text |-> EmptyText,
     a1_output |-> EmptyText, a2_output |-> EmptyText, a3_output |-> EmptyText,
     summary |-> EmptyText, videos |-> EmptyText, projects |-> EmptyText,
     quizzes |-> EmptyText, exams |-> EmptyText]
St0 == [raised |-> FALSE, exc |-> None, calls |-> <<>>, ret |-> EmptyText,
        loc |-> Locals0]

\* Call with the exception caught and "" returned in its place
Call_swallow(st, fn, args, out) ==
    [st EXCEPT !.raised = FALSE,
               !.exc = None,
               !.calls = Append(@, [fn |-> fn, args |-> args]),
               !.ret = out.val]

\* one call statement: skipped once an exception is propagating, otherwise
\* logged, and either returns out.val or raises; the exception propagates as
\* the callee raised it (no try/except in run_pipeline)
Call(st, fn, args, out) ==
    IF st.raised THEN st
    ELSE [st EXCEPT !.raised = ~out.ok,
                    !.exc = IF out.ok THEN None ELSE out.exc,
                    !.calls = Append(@, [fn |-> fn, args |-> args]),
                    !.ret = out.val]

\* has_upload that never sees the file
has_upload_never(uploaded_file) == FALSE

\* `uploaded_file is not None`
has_upload(uploaded_file) == uploaded_file # None

\* wants with every help type taken as selected
wants_all(h, help_types) == TRUE

\* `"<help type>" in help_types`
wants(h, help_types) == h \in Range(help_types)

\* pipeline_calls with the summarizer run only when "Summarize (Default)" is
\* among the help types
pipeline_calls_summary_gated(help_types, uploaded_file) ==
    <<"get_llm">>
        \o (IF has_upload(uploaded_file) THEN <<"a3_adapter">>
            ELSE <<"a1_everything", "a2_cleaner">>)
        \o (IF wants("Summarize (Default)", help_types)
            THEN <<"a4_summarizer">> ELSE <<>>)
        \o (IF wants("Videos", help_types) THEN <<"a5_collector_videos">> ELSE <<>>)
        \o (IF wants("Related Projects", help_types)
            THEN <<"a6_relations_projects">> ELSE <<>>)
        \o (IF wants("Quizzes/Exercises", help_types)
            THEN <<"a7_ai_companion_quiz">> ELSE <<>>)
        \o (IF wants("Exams", help_types) THEN <<"a8_examiner">> ELSE <<>>)

\* the call statements run_pipeline reaches, in program order
pipeline_calls(help_types, uploaded_file) ==
    <<"get_llm">>
        \o (IF has_upload(uploaded_file) THEN <<"a3_adapter">>
            ELSE <<"a1_everything", "a2_cleaner">>)
        \o <<"a4_summarizer">>
        \o (IF wants("Videos", help_types) THEN <<"a5_collector_videos">> ELSE <<>>)
        \o (IF wants("Related Projects", help_types)
            THEN <<"a6_relations_projects">> ELSE <<>>)
        \o (IF wants("Quizzes/Exercises", help_types)
            THEN <<"a7_ai_companion_quiz">> ELSE <<>>)
        \o (IF wants("Exams", help_types) THEN <<"a8_examiner">> ELSE <<>>)

\* the arguments each call is given
call_args(fn, loc, req) ==
    CASE fn = "get_llm" -> [engine_code |-> req.engine_code]
      [] fn = "a3_adapter" -> [uploaded_file |-> req.uploaded_file]
      [] fn = "a2_cleaner" ->
            [llm |-> loc.llm, subject |-> req.subject, raw |-> loc.a1_output]
      [] fn = "a4_summarizer" ->
            [llm |-> loc.llm, context |-> loc.context_text,
             guide_mode |-> req.guide_mode]
      [] fn = "a7_ai_companion_quiz" -> [llm |-> loc.llm, summary |-> loc.summary]
      [] OTHER -> [subject |-> req.subject, chapter |-> req.chapter]

\* the assignment of a call's return value
assign(loc, fn, ret) ==
    CASE fn = "get_llm" -> [loc EXCEPT !.llm = ret]
      [] fn = "a3_adapter" -> [loc EXCEPT !.a3_output = ret, !.context_text = ret]
      [] fn = "a1_everything" -> [loc EXCEPT !.a1_output = ret]
      [] fn = "a2_cleaner" -> [loc EXCEPT !.a2_output = ret, !.context_text = ret]
      [] fn = "a4_summarizer" -> [loc EXCEPT !.summary = ret]
      [] fn = "a5_collector_videos" -> [loc EXCEPT !.videos = ret]
      [] fn = "a6_relations_projects" -> [loc EXCEPT !.projects = ret]
      [] fn = "a7_ai_companion_quiz" -> [loc EXCEPT !.quizzes = ret]
      [] fn = "a8_examiner" -> [loc EXCEPT !.exams = ret]

outcome(fn, code, w) == IF fn = "get_llm" THEN get_llm(code) ELSE w[fn]

\* the statements one after the other
RECURSIVE run_calls(_, _, _, _)
run_calls(fns, st, req, w) ==
    IF fns = <<>> THEN st
    ELSE LET fn == Head(fns)
             c == Call(st, fn, call_args(fn, st.loc, req),
                       outcome(fn, req.engine_code, w))
         IN  run_calls(Tail(fns),
                       IF c.raised THEN c
                       ELSE [c EXCEPT !.loc = assign(@, fn, c.ret)],
                       req, w)

\* the return statement, or the exception leaving run_pipeline
pipeline_return(end) ==
    [raised |-> end.raised,
     exc |-> end.exc,
     calls |-> end.calls,
     output |-> IF end.raised THEN NoOutput
                ELSE [a1_output |-> end.loc.a1_output,
                      a2_output |-> end.loc.a2_output,
                      a3_output |-> end.loc.a3_output,
                      summary |-> end.loc.summary,
                      videos |-> end.loc.videos,
                      projects |-> end.loc.projects,
                      quizzes |-> end.loc.quizzes,
                      exams |-> end.loc.exams]]

run_pipeline(subject, chapter, help_types, guide_mode, uploaded_file, code, w) ==
    LET req == [subject |-> subject, chapter |-> chapter,
                help_types |-> help_types, guide_mode |-> guide_mode,
                uploaded_file |-> uploaded_file, engine_code |-> code]
    IN  pipeline_return(
            run_calls(pipeline_calls(help_types, uploaded_file), St0, req, w))

----------------------------------------------------------------------------
(* Inputs explored *)
Subjects == {<<" ", " ">>, <<"M", "a", "t", "h">>}
Chapters == {<<>>, <<" ", "L", "i", "m", "i", "t", "s">>}
Files == {None, "notes.pdf"}
HelpChoices == {{"Summarize (Default)", "Quizzes/Exercises"},
                {"Videos", "Related Projects", "Exams"}}
GuideModes == {TRUE}
EngineChoices == {"Deepseek 3.1", "Grok 4.1"}
EnvChoices == {{"DEEPSEEK_API_KEY"}}

NoAnswers == [n \in QNums |-> NoAnswer]

NoRequest == [none |-> TRUE]
\* an event whose handler calls no agent
Event(op, shown) ==
    [op |-> op, shown |-> shown, typed |-> NoRequest, request |-> NoRequest,
     calls |-> <<>>, raised |-> {}, returned |-> NoOutput]
\* the functions called, in order, and those of them that raised
Names(calls) == [i \in 1..Len(calls) |-> calls[i].fn]
RaisedIn(calls, w) ==
    {calls[i].fn : i \in {j \in 1..Len(calls) :
        IF calls[j].fn = "get_llm" THEN ~get_llm(calls[j].args.engine_code).ok
        ELSE ~w[calls[j].fn].ok}}

----------------------------------------------------------------------------
(* The session *)
\* init_session_state, then the first script run up to the engine selectbox
Init ==
    /\ env \in EnvChoices
    /\ engine_label = default_label
    /\ mas_output = NoOutput
    /\ summary = EmptyText
    /\ videos = EmptyText
    /\ projects = EmptyText
    /\ quizzes = EmptyText
    /\ exams = EmptyText
    /\ roadmap = EmptyText
    /\ engine_code = DEFAULT_ENGINE
    /\ study_history = <<>>
    /\ quiz_score = 0
    /\ quiz_answers = NoAnswers
    /\ quiz_submitted = FALSE
    /\ last_event = Event("init", "")
    /\ run = NoRun

\* SelectEngine that also drops the stored study pack
SelectEngine_clears_output(label) ==
    /\ engine_label' = label
    /\ engine_code' = ENGINE_OPTIONS[label].code
    /\ last_event' = Event("engine", "")
    /\ mas_output' = NoOutput
    /\ UNCHANGED <<env, summary, videos, projects, quizzes, exams, roadmap,
                   study_history, quiz_score, quiz_answers, quiz_submitted, run>>

\* the user picks an engine; the rerun stores its code
SelectEngine(label) ==
    /\ engine_label' = label
    /\ engine_code' = ENGINE_OPTIONS[label].code
    /\ last_event' = Event("engine", "")
    /\ UNCHANGED <<env, sessVars, run>>

\* StoreOutput without the reset of the quiz session
StoreOutput_keeps_quiz(output, subject, chapter, help_types) ==
    /\ mas_output' = output
    /\ summary' = output.summary
    /\ videos' = output.videos
    /\ projects' = output.projects
    /\ quizzes' = output.quizzes
    /\ exams' = output.exams
    /\ roadmap' = EmptyText
    /\ UNCHANGED <<quiz_score, quiz_answers, quiz_submitted>>
    /\ study_history' = Append(study_history,
                               [subject |-> subject,
                                chapter |-> chapter,
                                engine |-> engine_label,
                                help_types |-> help_types])

\* StoreOutput that keeps only the latest history entry
StoreOutput_history_replaced(output, subject, chapter, help_types) ==
    /\ mas_output' = output
    /\ summary' = output.summary
    /\ videos' = output.videos
    /\ projects' = output.projects
    /\ quizzes' = output.quizzes
    /\ exams' = output.exams
    /\ roadmap' = EmptyText
    /\ quiz_score' = 0
    /\ quiz_answers' = NoAnswers
    /\ quiz_submitted' = FALSE
    /\ study_history' = <<[subject |-> subject,
                           chapter |-> chapter,
                           engine |-> engine_label,
                           help_types |-> help_types]>>

\* the assignments after a successful run_pipeline
StoreOutput(output, subject, chapter, help_types) ==
    /\ mas_output' = output
    /\ summary' = output.summary
    /\ videos' = output.videos
    /\ projects' = output.projects
    /\ quizzes' = output.quizzes
    /\ exams' = output.exams
    /\ roadmap' = EmptyText
    /\ quiz_score' = 0
    /\ quiz_answers' = NoAnswers
    /\ quiz_submitted' = FALSE
    /\ study_history' = Append(study_history,
                               [subject |-> subject,
                                chapter |-> chapter,
                                engine |-> engine_label,
                                help_types |-> help_types])

\* the "Generate study pack" button, the agents behaving as one of `worlds`
GenerateWith(worlds, subject, chapter, checked, guide_mode, uploaded_file) ==
    /\ Len(study_history) < MaxHistory
    /\ UNCHANGED <<env, engine_label, engine_code, run>>
    /\ IF strip(subject) = <<>> \/ strip(chapter) = <<>>
       THEN /\ last_event' =
                  [Event("generate", "fill in both subject and chapter")
                      EXCEPT !.typed = [subject |-> subject, chapter |-> chapter]]
            /\ UNCHANGED sessVars
       ELSE IF ~check_api_key(ENGINE_OPTIONS[engine_label].env_var)
       THEN /\ last_event' =
                  [Event("generate", "key is missing")
                      EXCEPT !.typed = [subject |-> subject, chapter |-> chapter]]
            /\ UNCHANGED sessVars
       ELSE \E w \in worlds :
              LET help_types == help_list(checked)
                  r == run_pipeline(subject, chapter, help_types, guide_mode,
                                    uploaded_file, engine_code, w)
                  ev(shown) ==
                      [op |-> "generate", shown |-> shown,
                       typed |-> [subject |-> subject, chapter |-> chapter],
                       request |-> [subject |-> subject, chapter |-> chapter,
                                    help_types |-> help_types,
                                    uploaded_file |-> uploaded_file,
                                    engine |-> engine_label],
                       calls |-> Names(r.calls),
                       raised |-> RaisedIn(r.calls, w),
                       returned |-> r.output]
              IN  IF r.raised
                  THEN /\ last_event' = ev("error")
                       /\ UNCHANGED sessVars
                  ELSE /\ last_event' = ev("generated")
                       /\ StoreOutput(r.output, subject, chapter, help_types)

Generate(subject, chapter, checked, guide_mode, uploaded_file) ==
    GenerateWith(Worlds, subject, chapter, checked, guide_mode, uploaded_file)

\* the quiz tab is rendered: a result is stored and its quiz text is not ""
QuizShown == mas_output # NoOutput /\ quizzes # EmptyText
quiz_data == parse_quiz(quizzes)

\* SelectAnswer with the option buttons still live after the submit
SelectAnswer_always(i, letter) ==
    /\ mas_output # NoOutput /\ quizzes # EmptyText
    /\ i \in 1..Len(parse_quiz(quizzes).questions)
    /\ quiz_answers' =
          [quiz_answers EXCEPT ![parse_quiz(quizzes).questions[i].number] = letter]
    /\ last_event' = Event("select", "")
    /\ UNCHANGED <<env, engine_label, engine_code, run, mas_output, summary, videos,
                   projects, quizzes, exams, roadmap, study_history, quiz_score,
                   quiz_submitted>>

\* a click on option `letter` of the i-th rendered question; once the quiz is
\* submitted the options are plain text, not buttons
SelectAnswer(i, letter) ==
    /\ QuizShown
    /\ i \in 1..Len(quiz_data.questions)
    /\ IF ~quiz_submitted
       THEN /\ quiz_answers' =
                  [quiz_answers EXCEPT ![quiz_data.questions[i].number] = letter]
            /\ last_event' = Event("select", "")
       ELSE /\ UNCHANGED quiz_answers
            /\ last_event' = Event("select", "not a button")
    /\ UNCHANGED <<env, engine_label, engine_code, run, mas_output, summary, videos,
                   projects, quizzes, exams, roadmap, study_history, quiz_score,
                   quiz_submitted>>

\* Submit that grades but never sets quiz_submitted
Submit_no_flag ==
    /\ mas_output # NoOutput /\ quizzes # EmptyText
    /\ quiz_score' = graded_score(parse_quiz(quizzes).questions, quiz_answers)
    /\ last_event' = Event("submit", "")
    /\ UNCHANGED <<env, engine_label, engine_code, run, mas_output, summary, videos,
                   projects, quizzes, exams, roadmap, study_history, quiz_answers,
                   quiz_submitted>>

\* the "Submit Answers" button, rendered only while not submitted
Submit ==
    /\ QuizShown
    /\ IF ~quiz_submitted
       THEN /\ quiz_score' = graded_score(quiz_data.questions, quiz_answers)
            /\ quiz_submitted' = TRUE
            /\ last_event' = Event("submit", "")
       ELSE /\ UNCHANGED <<quiz_score, quiz_submitted>>
            /\ last_event' = Event("submit", "not rendered")
    /\ UNCHANGED <<env, engine_label, engine_code, run, mas_output, summary, videos,
                   projects, quizzes, exams, roadmap, study_history, quiz_answers>>

\* Retake that forgets to reset the score
Retake_keeps_score ==
    /\ mas_output # NoOutput /\ quizzes # EmptyText
    /\ IF quiz_submitted
       THEN /\ quiz_answers' = NoAnswers
            /\ quiz_submitted' = FALSE
            /\ UNCHANGED quiz_score
            /\ last_event' = Event("retake", "")
       ELSE /\ UNCHANGED <<quiz_answers, quiz_submitted, quiz_score>>
            /\ last_event' = Event("retake", "not rendered")
    /\ UNCHANGED <<env, engine_label, engine_code, run, mas_output, summary, videos,
                   projects, quizzes, exams, roadmap, study_history>>

\* the "Retake Quiz" button, rendered only once submitted
Retake ==
    /\ QuizShown
    /\ IF quiz_submitted
       THEN /\ quiz_answers' = NoAnswers
            /\ quiz_submitted' = FALSE
            /\ quiz_score' = 0
            /\ last_event' = Event("retake", "")
       ELSE /\ UNCHANGED <<quiz_answers, quiz_submitted, quiz_score>>
            /\ last_event' = Event("retake", "not rendered")
    /\ UNCHANGED <<env, engine_label, engine_code, run, mas_output, summary, videos,
                   projects, quizzes, exams, roadmap, study_history>>

\* the "Generate Roadmap" button of the quiz tab
GenerateRoadmap ==
    /\ QuizShown
    /\ \E w \in Worlds :
         LET s_llm == Call(St0, "get_llm", [engine_code |-> engine_code],
                           get_llm(engine_code))
             s_a9 == Call(s_llm, "a9_guide",
                          [llm |-> s_llm.ret, summary |-> summary,
                           self_score |-> self_score(quiz_score),
                           total_questions |-> 3],
                          w["a9_guide"])
             ev(shown) ==
                 [Event("roadmap", shown) EXCEPT
                    !.calls = Names(s_a9.calls),
                    !.raised = RaisedIn(s_a9.calls, w)]
         IN  IF s_a9.raised
             THEN /\ last_event' = ev("error")
                  /\ UNCHANGED roadmap
             ELSE /\ last_event' = ev("generated")
                  /\ roadmap' = s_a9.ret
    /\ UNCHANGED <<env, engine_label, engine_code, run, mas_output, summary, videos,
                   projects, quizzes, exams, study_history, quiz_score,
                   quiz_answers, quiz_submitted>>

Next ==
    \/ \E label \in EngineChoices : SelectEngine(label)
    \/ \E subject \in Subjects, chapter \in Chapters, checked \in HelpChoices,
          guide_mode \in GuideModes, uploaded_file \in Files :
            Generate(subject, chapter, checked, guide_mode, uploaded_file)
    \/ \E i \in 1..3, letter \in Letters : SelectAnswer(i, letter)
    \/ Submit
    \/ Retake
    \/ GenerateRoadmap

Spec == Init /\ [][Next]_vars

----------------------------------------------------------------------------
(* run_pipeline on its own: every request, every outcome of every call *)
\* an agent the request does not reach would answer if it were called
OutcomesIf(reached, a) == IF reached THEN Outcomes(a) ELSE {Ok(a)}

RunPipeline ==
    /\ run = NoRun
    /\ \E checked \in SUBSET Range(HELP_OPTIONS), uploaded_file \in Files,
          guide_mode \in BOOLEAN, label \in EngineChoices :
        \E o1 \in OutcomesIf(uploaded_file = None, "a1_everything"),
           o2 \in OutcomesIf(uploaded_file = None, "a2_cleaner"),
           o3 \in OutcomesIf(uploaded_file # None, "a3_adapter"),
           o4 \in Outcomes("a4_summarizer"),
           o5 \in OutcomesIf("Videos" \in checked, "a5_collector_videos"),
           o6 \in OutcomesIf("Related Projects" \in checked, "a6_relations_projects"),
           o7 \in OutcomesIf("Quizzes/Exercises" \in checked, "a7_ai_companion_quiz"),
           o8 \in OutcomesIf("Exams" \in checked, "a8_examiner") :
            LET w == [a \in AGENTS |->
                        CASE a = "a1_everything" -> o1
                          [] a = "a2_cleaner" -> o2
                          [] a = "a3_adapter" -> o3
                          [] a = "a4_summarizer" -> o4
                          [] a = "a5_collector_videos" -> o5
                          [] a = "a6_relations_projects" -> o6
                          [] a = "a7_ai_companion_quiz" -> o7
                          [] a = "a8_examiner" -> o8
                          [] OTHER -> Ok(a)]
                subject == <<"M", "a", "t", "h">>
                chapter == <<"L", "i", "m", "i", "t", "s">>
                help_types == help_list(checked)
                code == ENGINE_OPTIONS[label].code
            IN  run' = [pc |-> "returned",
                        subject |-> subject,
                        chapter |-> chapter,
                        help_types |-> help_types,
                        guide_mode |-> guide_mode,
                        uploaded_file |-> uploaded_file,
                        engine_code |-> code,
                        world |-> w,
                        result |-> run_pipeline(subject, chapter, help_types,
                                                guide_mode, uploaded_file, code, w)]
    /\ UNCHANGED <<env, engine_label, engine_code, sessVars, last_event>>

NextRun == RunPipeline

SpecRun == Init /\ [][NextRun]_vars

----------------------------------------------------------------------------
(* One Generate click call by call: every agent call returns, raises, or *)
(* never returns                                                         *)
Hang == [ok |-> FALSE, val |-> EmptyText, hangs |-> TRUE]

\* the click passes the checks of lines 430-433 and enters run_pipeline
StartRun(checked, uploaded_file) ==
    /\ run = NoRun
    /\ check_api_key(ENGINE_OPTIONS[engine_label].env_var)
    /\ run' = [pc |-> "running",
               req |-> [subject |-> <<"M", "a", "t", "h">>,
                        chapter |-> <<"L", "i", "m", "i", "t", "s">>,
                        help_types |-> help_list(checked),
                        guide_mode |-> TRUE,
                        uploaded_file |-> uploaded_file,
                        engine_code |-> engine_code],
               todo |-> pipeline_calls(help_list(checked), uploaded_file),
               st |-> St0]
    /\ last_event' = Event("generate", "Running multi-agent pipeline...")
    /\ UNCHANGED <<env, engine_label, engine_code, sessVars>>

\* the next call statement of run_pipeline: a synchronous call, so the run
\* goes on only when the callee returns or raises
AgentCall ==
    /\ run # NoRun
    /\ run.pc = "running"
    /\ run.todo # <<>>
    /\ LET fn == Head(run.todo)
       IN  \E out \in (IF fn = "get_llm" THEN {get_llm(run.req.engine_code)}
                       ELSE Outcomes(fn) \cup {Hang}) :
             IF out = Hang
             THEN run' = [run EXCEPT !.pc = "blocked"]
             ELSE LET st == run_calls(<<fn>>, run.st, run.req,
                                      [a \in AGENTS |-> out])
                  IN  run' = [run EXCEPT !.st = st,
                                         !.todo = Tail(@),
                                         !.pc = IF st.raised THEN "raised"
                                                ELSE "running"]
    /\ UNCHANGED <<env, engine_label, engine_code, sessVars, last_event>>

\* run_pipeline returned: lines 445-467
RunReturns ==
    /\ run # NoRun
    /\ run.pc = "running"
    /\ run.todo = <<>>
    /\ StoreOutput(pipeline_return(run.st).output, run.req.subject,
                   run.req.chapter, run.req.help_types)
    /\ last_event' = [Event("generate", "generated") EXCEPT
                         !.calls = Names(run.st.calls),
                         !.returned = pipeline_return(run.st).output]
    /\ run' = [run EXCEPT !.pc = "done"]
    /\ UNCHANGED <<env, engine_label, engine_code>>

\* an exception left run_pipeline: lines 468-469
RunRaises ==
    /\ run # NoRun
    /\ run.pc = "raised"
    /\ last_event' = [Event("generate", "error") EXCEPT
                         !.calls = Names(run.st.calls),
                         !.raised = {run.st.calls[Len(run.st.calls)].fn}]
    /\ run' = [run EXCEPT !.pc = "done"]
    /\ UNCHANGED <<env, engine_label, engine_code, sessVars>>

NextLive ==
    \/ \E checked \in HelpChoices, uploaded_file \in Files :
          StartRun(checked, uploaded_file)
    \/ AgentCall
    \/ RunReturns
    \/ RunRaises

\* the interpreter goes on executing the handler whenever it can
SpecLive ==
    /\ Init
    /\ [][NextLive]_vars
    /\ WF_vars(AgentCall)
    /\ WF_vars(RunReturns)
    /\ WF_vars(RunRaises)

----------------------------------------------------------------------------
(* The quiz tab on its own: study packs whose quiz is one of the catalogued *)
(* texts or the long one, then answering, submitting and retaking          *)
QuizWorlds ==
    {AllOk(q, "notes", "document text") :
        q \in {QuizTwo, QuizRepeated, QuizSwallowed, QuizLong}}

GenerateQuiz(w) ==
    GenerateWith({w}, <<"M", "a", "t", "h">>, <<"L", "i", "m", "i", "t", "s">>,
                 {"Summarize (Default)", "Quizzes/Exercises"}, TRUE, None)

NextQuiz ==
    \/ \E w \in QuizWorlds : GenerateQuiz(w)
    \/ \E i \in 1..3, letter \in Letters : SelectAnswer(i, letter)
    \/ \E i \in {LongQuizLen}, letter \in Letters : SelectAnswer(i, letter)
    \/ Submit
    \/ Retake

SpecQuiz == Init /\ [][NextQuiz]_vars

----------------------------------------------------------------------------
(* The three parsers alone: each action is one call of a parser on a text   *)
(* of the kind an agent may return; `run` records the call.  The parsers    *)
(* keep no state between calls, so a behaviour is one call.                 *)
MaxSections == 2
MaxEntries == 2

Titles == <<<<"p11", "p12", "p13">>, <<"p21", "p22", "p23">>,
            <<"p31", "p32", "p33">>>>
SectionLabels ==
    {"Projects", "GitHub Projects", "DockerHub Images", "Docker Images"}
ProjectUrls == {"https://github.com/a/b", "https://hub.docker.com/r/x",
                "https://example.org/x"}
VideoUrls == {"https://www.youtube.com/watch?v=abc&t=3",
              "https://youtu.be/xyz?t=1", "https://example.org/x"}
\* an entry is its title alone, its title and a note, or title, URL and note
ProjectShapes == {"title only", "note only"} \cup ProjectUrls
\* a video entry is its title alone, a URL without title, or title and URL
VideoShapes == {"title only", "url only"} \cup VideoUrls

ProjectEntry(k, j, shape) ==
    <<Ln("entry", j, Titles[k][j])>> \o
    (CASE shape = "title only" -> <<>>
       [] shape = "note only" -> <<Ln("note", 0, "a note")>>
       [] OTHER -> <<Ln("url", 0, shape), Ln("note", 0, "a note")>>)

VideoEntry(j, shape) ==
    CASE shape = "title only" -> <<Ln("entry", j, Titles[1][j])>>
      [] shape = "url only" ->
            <<Ln("entry", j, ""), Ln("url", 0, "https://youtu.be/xyz?t=1")>>
      [] OTHER -> <<Ln("entry", j, Titles[1][j]), Ln("url", 0, shape)>>

ShapeSeqs(shapes) == UNION {[1..n -> shapes] : n \in 0..MaxEntries}
\* a section: its heading and the shapes of its entries
SectionLayouts ==
    {[label |-> l, shapes |-> sh] :
        l \in SectionLabels, sh \in ShapeSeqs(ProjectShapes)}
\* texts of up to MaxSections sections
ProjectLayouts(sections) == UNION {[1..m -> sections] : m \in 0..MaxSections}

SectionText(k, section) ==
    <<Ln("text", 0, section.label)>> \o
    flatten([j \in 1..Len(section.shapes) |->
                ProjectEntry(k, j, section.shapes[j])])
\* the sections with the line of dashes between them
ProjectsText(layout) ==
    flatten([k \in 1..Len(layout) |->
                (IF k > 1 THEN <<Ln("sep", 0, "")>> ELSE <<>>)
                    \o SectionText(k, layout[k])])
VideosText(shapes) ==
    <<Ln("text", 0, "Videos")>> \o
    flatten([j \in 1..Len(shapes) |-> VideoEntry(j, shapes[j])])

QuizInputs ==
    QuizTexts \cup {QuizHugeNumber, QuizHugeExercise, "no marker at all"}

\* the record of a call: the text, and what the parser returned or raised
Parsed(fn, text, layout, result) ==
    [pc |-> "parsed", text |-> text, fn |-> fn, result |-> result,
     layout |-> layout]

ParseVideos(shapes) ==
    /\ run = NoRun
    /\ run' = Parsed("parse_videos", VideosText(shapes), shapes,
                     parse_videos(VideosText(shapes)))
    /\ UNCHANGED <<env, engine_label, mas_output, summary, videos, projects,
                   quizzes, exams, roadmap, engine_code, study_history,
                   quiz_score, quiz_answers, quiz_submitted, last_event>>
ParseProjects(layout) ==
    /\ run = NoRun
    /\ run' = Parsed("parse_projects", ProjectsText(layout), layout,
                     parse_projects(ProjectsText(layout)))
    /\ UNCHANGED <<env, engine_label, mas_output, summary, videos, projects,
                   quizzes, exams, roadmap, engine_code, study_history,
                   quiz_score, quiz_answers, quiz_submitted, last_event>>
ParseQuiz(quiz_text) ==
    /\ run = NoRun
    /\ run' = Parsed("parse_quiz", Lines(quiz_text), <<>>,
                     parse_quiz_call(quiz_text))
    /\ UNCHANGED <<env, engine_label, mas_output, summary, videos, projects,
                   quizzes, exams, roadmap, engine_code, study_history,
                   quiz_score, quiz_answers, quiz_submitted, last_event>>

NextParse ==
    \/ \E shapes \in ShapeSeqs(VideoShapes) : ParseVideos(shapes)
    \/ \E layout \in ProjectLayouts(SectionLayouts) : ParseProjects(layout)
    \/ \E quiz_text \in QuizInputs : ParseQuiz(quiz_text)

SpecParse == Init /\ [][NextParse]_vars

----------------------------------------------------------------------------
(* Properties *)
Abs(x) == IF x < 0 THEN -x ELSE x
Questions == quiz_data.questions
NumCorrect ==
    Cardinality({i \in 1..Len(Questions) :
                    quiz_answers[Questions[i].number] = Questions[i].correct})
Answered == {n \in QNums : quiz_answers[n] # NoAnswer}
Submitted == last_event.op = "submit" /\ last_event.shown = ""
\* s tenths is num/den rounded to one decimal (a tie goes to the even digit)
IsRound1(s, num, den) ==
    /\ 2 * Abs(s * den - 10 * num) <= den
    /\ 2 * Abs(s * den - 10 * num) = den => s % 2 = 0

C2_ScoreInRange == 0 <= quiz_score /\ quiz_score <= max_score * 10
C2_Witness ==
    /\ quiz_submitted
    /\ quiz_score = max_score * 10
    /\ Len(study_history) = 2

\* C3: a selection made while the quiz is Submitted changes neither the
\* answer map, nor the score, nor the submitted flag.
C3_SelectAfterSubmitNoOp ==
    [][(quiz_submitted /\ last_event'.op = "select")
          => UNCHANGED <<quiz_answers, quiz_score, quiz_submitted>>]_vars
C3_Witness ==
    /\ last_event.op = "select"
    /\ quiz_submitted
    /\ Answered # {}
    /\ quiz_score > 0

\* C4: a retake in state Submitted gives state Answering, an empty answer map
\* and score 0; in state Answering a retake is not available and changes nothing.
C4_Retake ==
    [][last_event'.op = "retake" =>
          IF quiz_submitted
          THEN /\ ~quiz_submitted'
               /\ \A n \in QNums : quiz_answers'[n] = NoAnswer
               /\ quiz_score' = 0
          ELSE UNCHANGED <<quiz_answers, quiz_score, quiz_submitted>>]_vars
C4_Witness ==
    /\ last_event.op = "retake"
    /\ last_event.shown = ""
    /\ ~quiz_submitted
    /\ Len(Questions) > 0

\* C5: a submit in state Answering moves the quiz to Submitted; a submit in
\* state Submitted changes neither the score nor the answers nor the state;
\* and, short of a new pipeline result, only a retake takes submitted from
\* true back to false.
C5_SubmitOnce ==
    [][/\ last_event'.op = "submit" =>
            IF ~quiz_submitted
            THEN quiz_submitted' /\ UNCHANGED quiz_answers
            ELSE UNCHANGED <<quiz_answers, quiz_score, quiz_submitted>>
       /\ (quiz_submitted /\ ~quiz_submitted'
              /\ ~(last_event'.op = "generate" /\ last_event'.shown = "generated"))
            => last_event'.op = "retake"]_vars
C5_Witness ==
    /\ last_event.op = "submit"
    /\ last_event.shown = "not rendered"
    /\ quiz_submitted
    /\ quiz_score > 0

C7_SuccessfulRunReplaces ==
    [][(/\ last_event'.op = "generate"
        /\ last_event'.request # NoRequest
        /\ last_event'.raised = {})
          => /\ last_event'.returned # NoOutput
             /\ mas_output' = last_event'.returned
             /\ summary' = last_event'.returned.summary
             /\ videos' = last_event'.returned.videos
             /\ projects' = last_event'.returned.projects
             /\ quizzes' = last_event'.returned.quizzes
             /\ exams' = last_event'.returned.exams
             /\ ~quiz_submitted'
             /\ \A n \in QNums : quiz_answers'[n] = NoAnswer
             /\ quiz_score' = 0]_vars
C7_Witness ==
    /\ last_event.op = "generate"
    /\ last_event.shown = "generated"
    /\ Len(study_history) = 2
    /\ study_history[1].help_types # study_history[2].help_types
    /\ videos # EmptyText

\* C8: a pipeline run in which no call raised appends exactly one entry with
\* the run's subject, chapter, engine label and help types; every other step
\* leaves the history as it is.
C8_HistoryAppendOnly ==
    [][IF /\ last_event'.op = "generate"
          /\ last_event'.request # NoRequest
          /\ last_event'.raised = {}
       THEN study_history' =
                Append(study_history,
                       [subject |-> last_event'.request.subject,
                        chapter |-> last_event'.request.chapter,
                        engine |-> engine_label,
                        help_types |-> last_event'.request.help_types])
       ELSE UNCHANGED study_history]_vars
C8_Witness ==
    /\ Len(study_history) = 2
    /\ study_history[1] # study_history[2]
    /\ last_event.op = "generate"
    /\ last_event.shown = "generated"

Completed == run # NoRun /\ ~run.result.raised
Called(fn) == \E i \in 1..Len(run.result.calls) : run.result.calls[i].fn = fn
Returned(fn) == run.world[fn].val

\* C9 as stated: in a completed run the branch taken is populated (non-empty)
\* and the other one is empty and not invoked.
C9_AsStated ==
    Completed =>
        IF run.uploaded_file # None
        THEN /\ ~Called("a1_everything") /\ ~Called("a2_cleaner")
             /\ run.result.output.a1_output = EmptyText
             /\ run.result.output.a2_output = EmptyText
             /\ run.result.output.a3_output # EmptyText
        ELSE /\ ~Called("a3_adapter")
             /\ run.result.output.a3_output = EmptyText
             /\ run.result.output.a1_output # EmptyText
             /\ run.result.output.a2_output # EmptyText

\* C9: in a completed run only the agents of the branch taken are invoked,
\* the fields of the branch taken hold what those agents returned, and the
\* fields of the other branch are empty; the two branches are never both
\* populated.
C9_BranchExclusive ==
    Completed =>
        /\ IF run.uploaded_file # None
           THEN /\ ~Called("a1_everything") /\ ~Called("a2_cleaner")
                /\ Called("a3_adapter")
                /\ run.result.output.a1_output = EmptyText
                /\ run.result.output.a2_output = EmptyText
                /\ run.result.output.a3_output = Returned("a3_adapter")
           ELSE /\ ~Called("a3_adapter")
                /\ Called("a1_everything") /\ Called("a2_cleaner")
                /\ run.result.output.a3_output = EmptyText
                /\ run.result.output.a1_output = Returned("a1_everything")
                /\ run.result.output.a2_output = Returned("a2_cleaner")
        /\ ~(/\ run.result.output.a3_output # EmptyText
             /\ \/ run.result.output.a1_output # EmptyText
                \/ run.result.output.a2_output # EmptyText)
C9_Witness ==
    /\ Completed
    /\ run.uploaded_file # None
    /\ run.result.output.a3_output = EmptyText
    /\ run.result.output.summary # EmptyText

HelpAgent(h) ==
    CASE h = "Videos" -> "a5_collector_videos"
      [] h = "Related Projects" -> "a6_relations_projects"
      [] h = "Quizzes/Exercises" -> "a7_ai_companion_quiz"
      [] h = "Exams" -> "a8_examiner"
HelpField(h, output) ==
    CASE h = "Videos" -> output.videos
      [] h = "Related Projects" -> output.projects
      [] h = "Quizzes/Exercises" -> output.quizzes
      [] h = "Exams" -> output.exams
GatedHelpTypes == {"Videos", "Related Projects", "Quizzes/Exercises", "Exams"}
Selected(h) == h \in Range(run.help_types)

\* C10 as stated: in a completed run a help-type field is "" if and only if
\* its help type was not selected, and its agent is invoked if and only if
\* the help type was selected.
C10_AsStated ==
    Completed =>
        \A h \in GatedHelpTypes :
            /\ (HelpField(h, run.result.output) = EmptyText) <=> ~Selected(h)
            /\ Called(HelpAgent(h)) <=> Selected(h)

\* C10: in a completed run the agent of a help type is invoked if and only if
\* the help type was selected; the field of a help type that was not selected
\* is "", and the field of a selected one is what its agent returned.
C10_HelpTypeGating ==
    Completed =>
        \A h \in GatedHelpTypes :
            /\ Called(HelpAgent(h)) <=> Selected(h)
            /\ ~Selected(h) => HelpField(h, run.result.output) = EmptyText
            /\ Selected(h) => HelpField(h, run.result.output) = Returned(HelpAgent(h))
C10_Witness ==
    /\ Completed
    /\ Selected("Videos")
    /\ run.result.output.videos = EmptyText
    /\ ~Selected("Exams")
    /\ Selected("Quizzes/Exercises")
    /\ run.result.output.quizzes # EmptyText

RunCalls == run.result.calls
\* the stage a call belongs to: handle, context (search, then clean, or
\* ingest), summary, help types
Stage(fn) ==
    CASE fn = "get_llm" -> 0
      [] fn = "a1_everything" -> 1
      [] fn \in {"a2_cleaner", "a3_adapter"} -> 2
      [] fn = "a4_summarizer" -> 3
      [] OTHER -> 4
CallReturned(i) ==
    IF RunCalls[i].fn = "get_llm" THEN EnvVarOf(run.engine_code) \in env
    ELSE run.world[RunCalls[i].fn].ok
CallsOf(fn) == {i \in 1..Len(RunCalls) : RunCalls[i].fn = fn}
ContextAgents ==
    IF run.uploaded_file # None THEN {"a3_adapter"}
    ELSE {"a1_everything", "a2_cleaner"}

\* C11: in every run a call starts only after the previous one returned; the
\* context calls precede the summarizer, which precedes the help-type agents;
\* once the context stage has returned the summarizer is called exactly once,
\* whatever the help types are, with the context that stage produced; and the
\* quiz agent is given the summary the summarizer returned in this run.
C11_SequentialOrder ==
    run # NoRun =>
        /\ \A i \in 1..(Len(RunCalls) - 1) : CallReturned(i)
        /\ \A i, j \in 1..Len(RunCalls) :
              i < j => /\ Stage(RunCalls[i].fn) <= Stage(RunCalls[j].fn)
                       /\ RunCalls[i].fn # RunCalls[j].fn
        /\ (\A a \in ContextAgents :
               \E i \in CallsOf(a) : CallReturned(i))
              => /\ Cardinality(CallsOf("a4_summarizer")) = 1
                 /\ \A i \in CallsOf("a4_summarizer") :
                       RunCalls[i].args.context =
                           IF run.uploaded_file # None THEN Returned("a3_adapter")
                           ELSE Returned("a2_cleaner")
        /\ \A i \in CallsOf("a4_summarizer") :
              \A a \in ContextAgents : \E j \in CallsOf(a) : j < i
        /\ \A i \in 1..Len(RunCalls) :
              Stage(RunCalls[i].fn) = 4 =>
                 /\ \E j \in CallsOf("a4_summarizer") : j < i /\ CallReturned(j)
                 /\ RunCalls[i].fn = "a7_ai_companion_quiz" =>
                       RunCalls[i].args.summary = Returned("a4_summarizer")
C11_Witness ==
    /\ Completed
    /\ run.help_types = <<"Quizzes/Exercises", "Exams">>
    /\ run.uploaded_file = None
    /\ Cardinality(CallsOf("a4_summarizer")) = 1
    /\ \E i \in CallsOf("a7_ai_companion_quiz") :
          RunCalls[i].args.summary = "other notes"

Blank(s) == \A i \in 1..Len(s) : s[i] \in Whitespace
KeyPresent == ENGINE_OPTIONS[engine_label].env_var \in env

\* C12: a click on Generate with a subject or a chapter that is empty or all
\* whitespace, or with the key of the selected engine absent, calls nothing
\* (neither get_llm nor an agent), changes no session field and shows an
\* error message.
C12_RejectedRunDoesNothing ==
    [][(/\ last_event'.op = "generate"
        /\ \/ Blank(last_event'.typed.subject)
           \/ Blank(last_event'.typed.chapter)
           \/ ~KeyPresent)
          => /\ last_event'.calls = <<>>
             /\ UNCHANGED sessVars
             /\ last_event'.shown \in {"fill in both subject and chapter",
                                       "key is missing"}]_vars
C12_Witness ==
    /\ last_event.op = "generate"
    /\ Blank(last_event.typed.subject)
    /\ ~Blank(last_event.typed.chapter)
    /\ last_event.calls = <<>>
    /\ mas_output # NoOutput
    /\ quiz_submitted

\* the call of the run that raised
FailedStep == RunCalls[Len(RunCalls)].fn

\* C13 as stated: an exception raised by an agent reaches the caller of
\* run_pipeline as an AgentExecutionError carrying the name of the failed
\* step, and a missing credential makes run_pipeline fail with a
\* CredentialError.
C13_AsStated ==
    (run # NoRun /\ run.result.raised) =>
        IF FailedStep = "get_llm"
        THEN run.result.exc.type = "CredentialError"
        ELSE /\ run.result.exc.type = "AgentExecutionError"
             /\ "step" \in DOMAIN run.result.exc
             /\ run.result.exc.step = FailedStep

\* C14 as stated: every pipeline run that has started eventually ends in an
\* outcome the caller sees, a stored result or a reported error, whatever
\* the agents do (return, raise, or never return).
C14_AsStated ==
    (run # NoRun /\ run.pc = "running")
        ~> (run.pc = "done" /\ last_event.shown \in {"generated", "error"})

\* C15 as stated: after a submit on a quiz with T > 0 questions the score is
\* max_score exactly when every question is answered correctly.
C15_AsStated ==
    (Submitted /\ Len(Questions) > 0) =>
        (quiz_score = max_score * 10 <=> NumCorrect = Len(Questions))

\* C15: after a submit on a quiz with T > 0 questions, all correct gives
\* max_score; with a question unanswered or wrong the score is strictly below
\* max_score as long as T < 2 * max_score * 10 (with more questions one miss
\* weighs less than half a tenth and the rounded score can be max_score).
C15_FullScore ==
    (Submitted /\ Len(Questions) > 0) =>
        /\ NumCorrect = Len(Questions) => quiz_score = max_score * 10
        /\ (NumCorrect < Len(Questions) /\ Len(Questions) < 2 * max_score * 10)
              => quiz_score < max_score * 10
C15_Witness ==
    /\ Submitted
    /\ quizzes = QuizRepeated
    /\ NumCorrect = 2
    /\ Answered = {1}
    /\ quiz_score < max_score * 10

Outputs == <<mas_output, summary, videos, projects, quizzes, exams>>
QuizSession == <<quiz_answers, quiz_submitted, quiz_score>>
GradingOps == {"select", "submit", "retake"}

\* C16: a selection, a submit and a retake leave the pipeline outputs and the
\* history as they are; and whatever is neither one of these three nor a
\* pipeline run in which no call raised (a roadmap generation, an engine
\* selection, a rejected or failed run) leaves outputs, quiz session and
\* history as they are.
C16_SessionFrame ==
    [][/\ last_event'.op \in GradingOps
            => UNCHANGED <<Outputs, study_history>>
       /\ (/\ last_event'.op \notin GradingOps
           /\ ~(/\ last_event'.op = "generate"
                /\ last_event'.request # NoRequest
                /\ last_event'.raised = {}))
            => UNCHANGED <<Outputs, QuizSession, study_history>>]_vars
C16_Witness ==
    /\ last_event.op = "roadmap"
    /\ last_event.shown = "generated"
    /\ roadmap # EmptyText
    /\ quiz_submitted
    /\ quiz_score > 0
    /\ Len(study_history) = 1

\* C19: in every reachable state a quiz that is not submitted has score 0.
C19_ScoreZeroWhileAnswering == ~quiz_submitted => quiz_score = 0
C19_Witness ==
    /\ last_event.op = "retake"
    /\ last_event.shown = ""
    /\ ~quiz_submitted
    /\ quiz_score = 0
    /\ quizzes = QuizRepeated

QuestionNumbers ==
    IF QuizShown THEN {Questions[i].number : i \in 1..Len(Questions)} ELSE {}

\* C20: in every reachable state every answered number is the number of a
\* question of the stored quiz and its answer is one of A-D; and right after
\* a pipeline run in which no call raised no answer is recorded.
C20_AnswersOfCurrentQuiz ==
    /\ Answered \subseteq QuestionNumbers
    /\ \A n \in Answered : quiz_answers[n] \in Letters
    /\ (last_event.op = "generate" /\ last_event.shown = "generated")
          => Answered = {}
C20_Witness ==
    /\ Len(study_history) = 2
    /\ quizzes = QuizRepeated
    /\ Answered = {1}
    /\ quiz_answers[1] = "D"

\* the call of a parser that `run` records
ParserCall == run # NoRun /\ run.pc = "parsed"
\* the text of the call has none of the markers the parser splits at
NoMarkers ==
    \A i \in 1..Len(run.text) :
        run.text[i].k \notin
            (IF run.fn = "parse_quiz" THEN {"Q", "E"} ELSE {"entry"})
EmptyStructure ==
    CASE run.fn = "parse_videos" -> <<>>
      [] run.fn = "parse_projects" -> [github |-> <<>>, docker |-> <<>>]
      [] run.fn = "parse_quiz" -> [questions |-> <<>>, exercises |-> <<>>]

\* C17 as the claim states it: every call of parse_videos, parse_projects and
\* parse_quiz returns a result without raising, and on a text without any
\* marker the result is the empty structure.
C17_AsStated ==
    ParserCall =>
        /\ ~run.result.raised
        /\ NoMarkers => run.result.value = EmptyStructure

\* the project of section k, entry j of the text is in that list of the result
Listed(list, k, j) ==
    \E i \in 1..Len(list) : list[i].title = Titles[k][j]
\* the URL of the entry has that host
HostIs(shape, host) == host \in Substrings(shape)
\* the text of section k has one of these keywords
SectionHas(k, keywords) ==
    \/ Substrings(run.layout[k].label) \cap keywords # {}
    \/ \E j \in 1..Len(run.layout[k].shapes) :
          Substrings(run.layout[k].shapes[j]) \cap keywords # {}

\* C18 as the claim states it: parse_projects puts each entry (of two lines
\* or more) in at most one of the two lists; the host of its URL decides
\* even against the keyword of its section (hub.docker.com gives docker,
\* github.com gives github); without such a host the keyword of the section
\* decides, and an entry with neither is in no list.
C18_AsStated ==
    (ParserCall /\ run.fn = "parse_projects") =>
        \A k \in 1..Len(run.layout) :
            \A j \in 1..Len(run.layout[k].shapes) :
                LET shape == run.layout[k].shapes[j]
                    github == Listed(run.result.value.github, k, j)
                    docker == Listed(run.result.value.docker, k, j)
                    gh_word == SectionHas(k, {"GitHub", "github.com"})
                    dk_word == SectionHas(k, {"DockerHub", "hub.docker.com",
                                              "Docker"})
                IN  shape # "title only" =>
                        /\ ~(github /\ docker)
                        /\ HostIs(shape, "hub.docker.com") => docker
                        /\ HostIs(shape, "github.com") => github
                        /\ (~HostIs(shape, "hub.docker.com")
                                /\ ~HostIs(shape, "github.com")) =>
                              /\ github => gh_word
                              /\ docker => dk_word
                              /\ (gh_word \/ dk_word) <=> (github \/ docker)

====
